---- MODULE Spec2Model ----
(***************************************************************************)
(* Employee location / attendance tracking backend (locationgct).          *)
(*                                                                         *)
(* The handlers of the two Express servers kept in src/unnamed/part_003    *)
(* (lines 1-638, "V1", and lines 639-1275, "V2") over the DynamoDB tables  *)
(* Employees, EmployeeLocation and Attendance.  reqs is the bag of the     *)
(* requests in flight; every handler is one Begin action (the synchronous  *)
(* code up to its first await) followed by one action per awaited store    *)
(* call, which applies the call to the table atomically and runs the       *)
(* handler on to its next await or to its response.  The requests in       *)
(* flight interleave at those awaits, as they do on the Node event loop.   *)
(*                                                                         *)
(* A DynamoDB item is a record; an attribute the item does not have is a   *)
(* field the record does not have.  A table is a function from primary     *)
(* key to item.  Every store call may fail (the handler's catch block      *)
(* answers 500).                                                           *)
(***************************************************************************)
EXTENDS Integers, Sequences, FiniteSets, Bags, TLC

VARIABLES
    now,            \* the wall clock, in ticks (new Date())
    attKeySchema,   \* the key schema the Attendance table was created with
    employees,      \* table Employees:        employeeId -> item
    locations,      \* table EmployeeLocation: locationId -> item
    attendance,     \* table Attendance:       <<employeeId, date>> -> item
    reqs,           \* the bag of the requests in flight
    last,           \* the latest response sent, with the request it answers
    clockInWins,    \* history: per <<employee, day>>, the clock-ins answered 200
    createWins      \* history: per employee id, the creates answered 200

vars == <<now, attKeySchema, employees, locations, attendance, reqs, last,
          clockInWins, createWins>>

----------------------------------------------------------------------------
(* Bounds of the model. *)

NSlots == 2         \* requests that can be in flight together
MaxTime == 2        \* the clock stops after this many ticks
TicksPerDay == 2    \* ticks of the clock in one calendar day
MaxWins == 2        \* the history counters stop counting here
MaxFixes == 3       \* location fixes the ledger takes

(* 5.5 hours, the offset of IST from UTC, in ticks (a part of a day). *)
IstOffset == 1

Times == 0 .. MaxTime

AttendanceEmployees == {"E1"}

----------------------------------------------------------------------------
(* Helper functions of the server. *)

\* getISTTimestamp: the IST wall-clock instant, "YYYY-MM-DD HH:MM:SS".
getISTTimestamp(t) == t + IstOffset

\* getISTDateString: the calendar day of the IST wall clock, "YYYY-MM-DD".
getISTDateString(t) == (t + IstOffset) \div TicksPerDay

----------------------------------------------------------------------------
(* The store (DynamoDB DocumentClient). *)

\* put without a condition: inserts or overwrites.
Put(tbl, key, item) ==
    [k \in (DOMAIN tbl) \cup {key} |-> IF k = key THEN item ELSE tbl[k]]

\* put with ConditionExpression attribute_not_exists(attr): fails
\* (ConditionalCheckFailedException) when the table has an item of that
\* key and the item has the attribute.
ConditionalPutMutant(tbl, key, item, attr) ==
    [failed |-> FALSE, tbl |-> Put(tbl, key, item)]

ConditionalPut(tbl, key, item, attr) ==
    IF key \in DOMAIN tbl /\ attr \in DOMAIN tbl[key]
    THEN [failed |-> TRUE, tbl |-> tbl]
    ELSE [failed |-> FALSE, tbl |-> Put(tbl, key, item)]

\* update with a SET expression and no condition: merges the fields into
\* the item of that key, creating the item when the key is absent.
Update(tbl, key, keyFields, sets) ==
    [k \in (DOMAIN tbl) \cup {key} |->
        IF k # key THEN tbl[k]
        ELSE IF key \in DOMAIN tbl THEN sets @@ tbl[key]
        ELSE sets @@ keyFields]

\* scan: the items of the table (the handlers apply their FilterExpression
\* to it); the store chooses the order of the result.
Scan(tbl) == {tbl[k] : k \in DOMAIN tbl}

----------------------------------------------------------------------------
(* Requests and responses. *)

Idle == [op |-> "idle", pc |-> "idle"]

\* the server takes a request while fewer than NSlots are in flight
Free == BagCardinality(reqs) < NSlots

\* the request enters its first await
Accept(req) == reqs' = reqs (+) SetToBag({req})

\* the request r goes on to its next await, as r2
Advance(r, r2) == reqs' = (reqs (-) SetToBag({r})) (+) SetToBag({r2})

\* res.status(status).json(body): the request is no longer in flight.
Respond(r, status, body) ==
    /\ reqs' = reqs (-) SetToBag({r})
    /\ last' = [req |-> r, resp |-> [status |-> status, body |-> body]]

\* a response sent before the first await: the request req never takes a slot.
Reject(req, status, body) ==
    /\ last' = [req |-> req, resp |-> [status |-> status, body |-> body]]
    /\ UNCHANGED reqs

\* the catch block of every handler: res.status(500).json({error: message})
StoreError(r) == Respond(r, 500, [error |-> "store"])

\* JSON.stringify drops a field set to undefined; so does a rest pattern
\* that binds the field apart.
Without(item, field) == [f \in (DOMAIN item) \ {field} |-> item[f]]

Null == [isNull |-> TRUE]

\* the latest response answers a request of operation op
Answered(op) == last.req.op = op

----------------------------------------------------------------------------
(* Attendance: POST /api/attendance/clockin *)

\* the primary key of an item of the Attendance table
AttendanceKey(item) ==
    IF attKeySchema = "attendanceId"
    THEN item.attendanceId
    ELSE <<item.employeeId, item.date>>

\* the item clock-in writes; attendanceId is `${employeeId}_${dateStr}`
AttendanceItemMutant(employeeId, dateStr, clockInTime) ==
    [attendanceId |-> <<employeeId, clockInTime>>,
     employeeId   |-> employeeId,
     clockInTime  |-> clockInTime,
     status       |-> "completed",
     date         |-> dateStr]

AttendanceItem(employeeId, dateStr, clockInTime) ==
    [attendanceId |-> <<employeeId, dateStr>>,
     employeeId   |-> employeeId,
     clockInTime  |-> clockInTime,
     status       |-> "completed",
     date         |-> dateStr]

ClockInBegin(e) ==
    /\ Free
    /\ Accept([op |-> "clockin", pc |-> "put", employeeId |-> e,
               item |-> AttendanceItem(e, getISTDateString(now),
                                       getISTTimestamp(now))])
    /\ UNCHANGED <<now, attKeySchema, employees, locations, attendance, last,
                   clockInWins, createWins>>

ClockInPut(r) ==
    /\ r.op = "clockin" /\ r.pc = "put"
    /\ LET item == r.item
           put  == ConditionalPut(attendance, AttendanceKey(item), item,
                                  "attendanceId")
       IN \/ /\ ~put.failed
             /\ attendance' = put.tbl
             /\ clockInWins' = [clockInWins EXCEPT ![<<item.employeeId, item.date>>] =
                                   IF @ < MaxWins THEN @ + 1 ELSE @]
             /\ Respond(r, 200, [success |-> TRUE,
                                 message |-> "Clocked in successfully",
                                 time |-> item.clockInTime])
          \/ /\ put.failed
             /\ Respond(r, 400, [error |-> "Already clocked in for today."])
             /\ UNCHANGED <<attendance, clockInWins>>
          \/ /\ StoreError(r)
             /\ UNCHANGED <<attendance, clockInWins>>
    /\ UNCHANGED <<now, attKeySchema, employees, locations, createWins>>

----------------------------------------------------------------------------
(* Attendance: POST /api/attendance/clockout *)

ClockOutFilterMutant(item, employeeId, todayStr) ==
    item.employeeId = employeeId

ClockOutFilter(item, employeeId, todayStr) ==
    item.employeeId = employeeId /\ item.date = todayStr

ClockOutSetsMutant(istNow) ==
    [clockOutTime |-> istNow, status |-> "present", clockInTime |-> istNow]

ClockOutSets(istNow) == [clockOutTime |-> istNow, status |-> "present"]

ClockOutBegin(e) ==
    /\ Free
    /\ Accept([op |-> "clockout", pc |-> "scan", employeeId |-> e,
               todayStr |-> getISTDateString(now)])
    /\ UNCHANGED <<now, attKeySchema, employees, locations, attendance, last,
                   clockInWins, createWins>>

ClockOutScan(r) ==
    /\ r.op = "clockout" /\ r.pc = "scan"
    /\ LET Items == {item \in Scan(attendance) :
                       ClockOutFilter(item, r.employeeId, r.todayStr)}
       IN \/ /\ Items = {}
             /\ Respond(r, 404, [error |-> "No attendance record found for today."])
          \/ \E session \in Items :
                /\ Advance(r, [r EXCEPT !.pc = "update"]
                               @@ [session |-> session,
                                   dbKey |-> <<session.employeeId, session.date>>,
                                   istNow |-> getISTTimestamp(now)])
                /\ UNCHANGED last
          \/ StoreError(r)
    /\ UNCHANGED <<now, attKeySchema, employees, locations, attendance,
                   clockInWins, createWins>>

ClockOutUpdate(r) ==
    /\ r.op = "clockout" /\ r.pc = "update"
    /\ \/ /\ attKeySchema = "employeeId_date"
             /\ attendance' = Update(attendance, r.dbKey,
                                     [employeeId |-> r.dbKey[1], date |-> r.dbKey[2]],
                                     ClockOutSets(r.istNow))
             /\ Respond(r, 200, [success |-> TRUE,
                                 message |-> "Clocked out successfully",
                                 clockOutTime |-> r.istNow])
          \/ \* the key {employeeId, date} is not the table's key: ValidationException
             /\ attKeySchema = "attendanceId"
             /\ StoreError(r)
             /\ UNCHANGED attendance
          \/ /\ StoreError(r)
             /\ UNCHANGED attendance
    /\ UNCHANGED <<now, attKeySchema, employees, locations, clockInWins, createWins>>

----------------------------------------------------------------------------
(* Attendance: GET /api/attendance/status/:employeeId *)

StatusFilter(item, employeeId) ==
    item.employeeId = employeeId /\ item.status = "present"

StatusBegin(e) ==
    /\ Free
    /\ Accept([op |-> "status", pc |-> "scan", employeeId |-> e])
    /\ UNCHANGED <<now, attKeySchema, employees, locations, attendance, last,
                   clockInWins, createWins>>

StatusScan(r) ==
    /\ r.op = "status" /\ r.pc = "scan"
    /\ LET Items == {item \in Scan(attendance) :
                       StatusFilter(item, r.employeeId)}
       IN \/ /\ Items = {}
             /\ Respond(r, 200, [success |-> TRUE, isClockedIn |-> FALSE,
                                 data |-> Null])
          \/ \E first \in Items :
                Respond(r, 200, [success |-> TRUE, isClockedIn |-> TRUE,
                                 data |-> first])
          \/ StoreError(r)
    /\ UNCHANGED <<now, attKeySchema, employees, locations, attendance,
                   clockInWins, createWins>>

----------------------------------------------------------------------------
(* Directory: POST /api/employees.  A field the body does not carry is "". *)

DirectoryIds == {"EMP001"}
UnknownId == "E9"
DefaultPassword == "12345"

CreateItemV1(employeeId, name, password, t) ==
    [employeeId |-> employeeId,
     name       |-> name,
     email      |-> "",
     phone      |-> "",
     department |-> "",
     role       |-> "employee",
     deviceId   |-> <<"DEVICE_", employeeId>>,
     password   |-> IF password # "" THEN password ELSE DefaultPassword,
     passwordSet |-> FALSE,
     status     |-> "active",
     createdAt  |-> t,
     lastUpdated |-> t,
     isActive   |-> TRUE]

CreateItemV2(employeeId, name, password, t) ==
    [employeeId |-> employeeId,
     name       |-> name,
     email      |-> "",
     phone      |-> "",
     department |-> "",
     deviceId   |-> <<"DEVICE_", employeeId>>,
     password   |-> IF password # "" THEN password ELSE DefaultPassword,
     passwordSet |-> FALSE,
     status     |-> "inactive",
     createdAt  |-> t,
     lastUpdated |-> t,
     isActive   |-> TRUE]

\* dynamodb.put(params) with ConditionExpression attribute_not_exists(employeeId)
PutEmployeeMutant(tbl, item) ==
    [failed |-> FALSE, tbl |-> Put(tbl, item.employeeId, item)]

PutEmployee(tbl, item) ==
    ConditionalPut(tbl, item.employeeId, item, "employeeId")

CreateBegin(op, employeeId, name, password, item) ==
    LET req == [op |-> op, pc |-> "put", employeeId |-> employeeId,
                name |-> name, password |-> password, item |-> item]
    IN /\ Free
       /\ IF employeeId = "" \/ name = ""
          THEN Reject(req, 400, [error |-> "Employee ID and Name are required"])
          ELSE Accept(req) /\ UNCHANGED last
       /\ UNCHANGED <<now, attKeySchema, employees, locations, attendance,
                      clockInWins, createWins>>

CreateV1Begin(employeeId, name, password) ==
    CreateBegin("createV1", employeeId, name, password,
                CreateItemV1(employeeId, name, password, now))

CreateV2Begin(employeeId, name, password) ==
    CreateBegin("createV2", employeeId, name, password,
                CreateItemV2(employeeId, name, password, now))

IsCreate(r) == r.op \in {"createV1", "createV2"}

CreatePut(r) ==
    /\ IsCreate(r) /\ r.pc = "put"
    /\ LET item == r.item
           put  == PutEmployee(employees, item)
       IN \/ /\ ~put.failed
             /\ employees' = put.tbl
             /\ createWins' = [createWins EXCEPT ![item.employeeId] =
                                  IF @ < MaxWins THEN @ + 1 ELSE @]
             /\ Respond(r, 200, [success |-> TRUE,
                                 message |-> "Employee added successfully",
                                 employee |-> Without(item, "password")])
          \/ /\ put.failed
             /\ Respond(r, 400, [error |-> "Employee ID already exists"])
             /\ UNCHANGED <<employees, createWins>>
          \/ /\ StoreError(r)
             /\ UNCHANGED <<employees, createWins>>
    /\ UNCHANGED <<now, attKeySchema, locations, attendance, clockInWins>>

----------------------------------------------------------------------------
(* Directory: PUT /api/employees/:employeeId/password (both servers) *)

\* a JavaScript truth test of an attribute the item may not have
TruthyMutant(item, field) == FALSE

Truthy(item, field) == field \in DOMAIN item /\ item[field] = TRUE

ChangePasswordSetsMutant(newPassword, t) ==
    [password |-> DefaultPassword, passwordSet |-> TRUE, lastUpdated |-> t]

ChangePasswordSets(newPassword, t) ==
    [password |-> newPassword, passwordSet |-> TRUE, lastUpdated |-> t]

ChangePasswordBegin(employeeId, oldPassword, newPassword) ==
    LET req == [op |-> "changePassword", pc |-> "get", employeeId |-> employeeId,
                oldPassword |-> oldPassword, newPassword |-> newPassword]
    IN /\ Free
       /\ IF newPassword = ""
          THEN Reject(req, 400, [error |-> "New password is required"])
          ELSE Accept(req) /\ UNCHANGED last
       /\ UNCHANGED <<now, attKeySchema, employees, locations, attendance,
                      clockInWins, createWins>>

ChangePasswordGet(r) ==
    /\ r.op = "changePassword" /\ r.pc = "get"
    /\ LET found == r.employeeId \in DOMAIN employees
           item == employees[r.employeeId]
       IN \/ /\ ~found
             /\ Respond(r, 404, [error |-> "Employee not found"])
          \/ /\ found /\ Truthy(item, "passwordSet") /\ r.oldPassword = ""
             /\ Respond(r, 400, [error |-> "Old password is required"])
          \/ /\ found /\ Truthy(item, "passwordSet") /\ r.oldPassword # ""
             /\ ("password" \notin DOMAIN item \/ r.oldPassword # item.password)
             /\ Respond(r, 401, [error |-> "Old password is incorrect"])
          \/ /\ found
             /\ Truthy(item, "passwordSet")
                  => ("password" \in DOMAIN item /\ r.oldPassword = item.password)
             /\ Advance(r, [r EXCEPT !.pc = "update"] @@ [updated |-> now])
             /\ UNCHANGED last
          \/ StoreError(r)
    /\ UNCHANGED <<now, attKeySchema, employees, locations, attendance,
                   clockInWins, createWins>>

ChangePasswordUpdate(r) ==
    /\ r.op = "changePassword" /\ r.pc = "update"
    /\ \/ /\ employees' = Update(employees, r.employeeId,
                                    [employeeId |-> r.employeeId],
                                    ChangePasswordSets(r.newPassword, r.updated))
             /\ Respond(r, 200, [success |-> TRUE,
                                 message |-> "Password updated successfully"])
          \/ /\ StoreError(r)
             /\ UNCHANGED employees
    /\ UNCHANGED <<now, attKeySchema, locations, attendance, clockInWins, createWins>>

----------------------------------------------------------------------------
(* Directory: POST /api/login *)

InvalidCredentials == [status |-> 401, body |-> [error |-> "Invalid credentials"]]

LoginOkMutant(item) ==
    [status |-> 200,
     body |-> [success |-> TRUE, message |-> "Login successful",
               employee |-> item,
               requiresPasswordChange |-> Truthy(item, "passwordSet")]]

\* const { password: _, ...employeeData } = result.Item
LoginOk(item) ==
    [status |-> 200,
     body |-> [success |-> TRUE, message |-> "Login successful",
               employee |-> Without(item, "password"),
               requiresPasswordChange |-> ~Truthy(item, "passwordSet")]]

\* password !== result.Item.password, the item possibly without a password
PasswordMismatch(item, password) ==
    "password" \notin DOMAIN item \/ password # item.password

\* the first server: one test for both failures
LoginV1Result(tbl, employeeId, password) ==
    IF employeeId \notin DOMAIN tbl \/ PasswordMismatch(tbl[employeeId], password)
    THEN InvalidCredentials
    ELSE LoginOk(tbl[employeeId])

LoginV2ResultMutant(tbl, employeeId, password) ==
    IF employeeId \notin DOMAIN tbl
    THEN [status |-> 404, body |-> [error |-> "Employee not found"]]
    ELSE IF PasswordMismatch(tbl[employeeId], password)
    THEN InvalidCredentials
    ELSE LoginOk(tbl[employeeId])

\* the second server: a test and a response for each failure
LoginV2Result(tbl, employeeId, password) ==
    IF employeeId \notin DOMAIN tbl
    THEN [status |-> 401, body |-> [error |-> "Invalid credentials"]]
    ELSE IF PasswordMismatch(tbl[employeeId], password)
    THEN [status |-> 401, body |-> [error |-> "Invalid credentials"]]
    ELSE LoginOk(tbl[employeeId])

LoginBegin(op, employeeId, password) ==
    LET req == [op |-> op, pc |-> "get", employeeId |-> employeeId,
                password |-> password]
    IN /\ Free
       /\ IF employeeId = "" \/ password = ""
          THEN Reject(req, 400, [error |-> "Employee ID and password are required"])
          ELSE Accept(req) /\ UNCHANGED last
       /\ UNCHANGED <<now, attKeySchema, employees, locations, attendance,
                      clockInWins, createWins>>

LoginV1Begin(employeeId, password) == LoginBegin("loginV1", employeeId, password)

LoginV2Begin(employeeId, password) == LoginBegin("loginV2", employeeId, password)

IsLogin(r) == r.op \in {"loginV1", "loginV2"}

LoginGet(r) ==
    /\ IsLogin(r) /\ r.pc = "get"
    /\ LET result == IF r.op = "loginV1"
                     THEN LoginV1Result(employees, r.employeeId, r.password)
                     ELSE LoginV2Result(employees, r.employeeId, r.password)
       IN \/ Respond(r, result.status, result.body)
          \/ StoreError(r)
    /\ UNCHANGED <<now, attKeySchema, employees, locations, attendance,
                   clockInWins, createWins>>

----------------------------------------------------------------------------
(* Directory: POST /api/seed-test-data (first server) *)

SeedEmployeesV1 ==
    << [employeeId |-> "EMP001", name |-> "John Smith", email |-> "john@company.com",
        status |-> "active", isActive |-> TRUE, password |-> "12345"],
       [employeeId |-> "EMP002", name |-> "Sarah Johnson", email |-> "sarah@company.com",
        status |-> "active", isActive |-> TRUE, password |-> "123"] >>

SeedV1Begin ==
    /\ Free
    /\ Accept([op |-> "seedV1", pc |-> "put", next |-> 1])
    /\ UNCHANGED <<now, attKeySchema, employees, locations, attendance, last,
                   clockInWins, createWins>>

SeedV1Put(r) ==
    /\ r.op = "seedV1" /\ r.pc = "put"
    /\ LET i == r.next
           employee == SeedEmployeesV1[i]
       IN \/ /\ employees' = Put(employees, employee.employeeId, employee)
             /\ IF i < Len(SeedEmployeesV1)
                THEN Advance(r, [r EXCEPT !.next = i + 1]) /\ UNCHANGED last
                ELSE Respond(r, 200, [success |-> TRUE,
                                      message |-> "Test data seeded successfully"])
          \/ /\ StoreError(r)
             /\ UNCHANGED employees
    /\ UNCHANGED <<now, attKeySchema, locations, attendance, clockInWins, createWins>>

----------------------------------------------------------------------------
(* Ledger: values of the request body and of the items.                    *)
(* A number of the body is Number(n), a field the body lacks is Undefined. *)
(* A time string is the text of an instant t in one of two forms: the      *)
(* decimal epoch milliseconds (timestamp.toString()) or ISO 8601           *)
(* (toISOString()).                                                        *)

Undefined == [undefined |-> TRUE]
Number(n) == [number |-> n]

\* !x of a body field
Falsy(x) == x = Undefined \/ x = Number(0)

\* parseFloat of a body field holding a number
parseFloat(x) == x.number

EpochString(t) == [form |-> "epoch", t |-> t]
IsoString(t) == [form |-> "iso", t |-> t]

InvalidDate == [valid |-> FALSE]

\* new Date(string): a string of epoch digits is no date format (Invalid Date)
NewDate(string) ==
    IF string.form = "iso" THEN [valid |-> TRUE, time |-> string.t] ELSE InvalidDate

\* new Date(item.field), the item possibly without the field
DateOf(item, field) ==
    IF field \in DOMAIN item THEN NewDate(item[field]) ELSE InvalidDate

\* a > b of two Dates: false when either is invalid (NaN)
DateGreater(a, b) == a.valid /\ b.valid /\ a.time > b.time

\* a - b of two Dates as a sort comparator sees it: NaN counts as 0
DateMinus(a, b) == IF a.valid /\ b.valid THEN a.time - b.time ELSE 0

\* formatDate / formatTime of the second server: UTC day and time of day
formatDate(t) == t \div TicksPerDay
formatTime(t) == t % TicksPerDay

\* Array.prototype.sort with a comparator on a Date field: a stable
\* insertion sort; desc is (a, b) => b - a, otherwise (a, b) => a - b.
RECURSIVE Insert(_, _, _, _)
Insert(sorted, x, field, desc) ==
    IF sorted = <<>> THEN <<x>>
    ELSE LET y == sorted[Len(sorted)]
             c == IF desc THEN DateMinus(DateOf(x, field), DateOf(y, field))
                          ELSE DateMinus(DateOf(y, field), DateOf(x, field))
         IN IF c > 0
            THEN Append(Insert(SubSeq(sorted, 1, Len(sorted) - 1), x, field, desc), y)
            ELSE Append(sorted, x)

RECURSIVE SortBy(_, _, _)
SortBy(items, field, desc) ==
    IF items = <<>> THEN <<>>
    ELSE Insert(SortBy(SubSeq(items, 1, Len(items) - 1), field, desc),
                items[Len(items)], field, desc)

\* the orders in which a scan can return a set of items
ScanOrders(Items) ==
    {seq \in [1 .. Cardinality(Items) -> Items] :
        \A i, j \in 1 .. Cardinality(Items) : i # j => seq[i] # seq[j]}

LedgerEmployees == {"E1", "E2"}

----------------------------------------------------------------------------
(* Ledger: POST /api/locations (first server) *)

LocationItemV1(employeeId, latitude, longitude, t) ==
    [locationId |-> <<employeeId, t>>,
     employeeId |-> employeeId,
     latitude   |-> parseFloat(latitude),
     longitude  |-> parseFloat(longitude),
     speed      |-> 0,
     accuracy   |-> 0,
     recordedAt |-> IsoString(t),
     date       |-> getISTDateString(t),
     timestamp  |-> EpochString(t)]

\* the ledger takes fixes while it holds fewer than MaxFixes
LedgerOpen == Cardinality(DOMAIN locations) < MaxFixes

RecordV1Begin(employeeId, latitude, longitude) ==
    LET req == [op |-> "recordV1", pc |-> "put", employeeId |-> employeeId,
                latitude |-> latitude, longitude |-> longitude]
    IN /\ Free /\ LedgerOpen
       /\ IF employeeId = "" \/ Falsy(latitude) \/ Falsy(longitude)
          THEN Reject(req, 400, [error |-> "Missing required fields"])
          ELSE /\ Accept(req @@ [item |-> LocationItemV1(employeeId, latitude,
                                                         longitude, now)])
               /\ UNCHANGED last
       /\ UNCHANGED <<now, attKeySchema, employees, locations, attendance,
                      clockInWins, createWins>>

RecordV1Put(r) ==
    /\ r.op = "recordV1" /\ r.pc = "put"
    /\ \/ /\ locations' = Put(locations, r.item.locationId, r.item)
          /\ Respond(r, 200, [success |-> TRUE])
       \/ /\ StoreError(r)
          /\ UNCHANGED locations
    /\ UNCHANGED <<now, attKeySchema, employees, attendance, clockInWins, createWins>>

----------------------------------------------------------------------------
(* Ledger: POST /api/locations (second server) *)

\* timestamp || now.toISOString()
RecordTime(timestamp, t) == IF timestamp = Undefined THEN IsoString(t) ELSE timestamp

LocationItemV2(employeeId, latitude, longitude, timestamp, t) ==
    [locationId |-> <<employeeId, t>>,
     employeeId |-> employeeId,
     deviceId   |-> <<"DEVICE_", employeeId>>,
     latitude   |-> parseFloat(latitude),
     longitude  |-> parseFloat(longitude),
     speed      |-> 0,
     accuracy   |-> 0,
     battery    |-> 100,
     timestamp  |-> RecordTime(timestamp, t),
     date       |-> formatDate(NewDate(RecordTime(timestamp, t)).time),
     time       |-> formatTime(NewDate(RecordTime(timestamp, t)).time)]

LastLocationSets(item, t) ==
    [lastLocationTime |-> item.timestamp,
     lastLatitude     |-> item.latitude,
     lastLongitude    |-> item.longitude,
     status           |-> "active",
     lastUpdated      |-> IsoString(t)]

RecordV2Begin(employeeId, latitude, longitude, timestamp) ==
    LET req == [op |-> "recordV2", pc |-> "put", employeeId |-> employeeId,
                latitude |-> latitude, longitude |-> longitude,
                timestamp |-> timestamp, t |-> now]
    IN /\ Free /\ LedgerOpen
       /\ IF employeeId = "" \/ Falsy(latitude) \/ Falsy(longitude)
          THEN Reject(req, 400,
                      [error |-> "Employee ID, latitude and longitude are required"])
          ELSE IF ~NewDate(RecordTime(timestamp, now)).valid
          THEN \* toISOString of an Invalid Date throws: the catch block answers
               Reject(req, 500, [error |-> "Invalid time value"])
          ELSE /\ Accept(req @@ [item |-> LocationItemV2(employeeId, latitude,
                                              longitude, timestamp, now)])
               /\ UNCHANGED last
       /\ UNCHANGED <<now, attKeySchema, employees, locations, attendance,
                      clockInWins, createWins>>

RecordV2Put(r) ==
    /\ r.op = "recordV2" /\ r.pc = "put"
    /\ \/ /\ locations' = Put(locations, r.item.locationId, r.item)
          /\ Advance(r, [r EXCEPT !.pc = "update"])
          /\ UNCHANGED last
       \/ /\ StoreError(r)
          /\ UNCHANGED locations
    /\ UNCHANGED <<now, attKeySchema, employees, attendance, clockInWins, createWins>>

RecordV2Update(r) ==
    /\ r.op = "recordV2" /\ r.pc = "update"
    /\ \/ /\ employees' = Update(employees, r.employeeId,
                                 [employeeId |-> r.employeeId],
                                 LastLocationSets(r.item, r.t))
          /\ Respond(r, 200, [success |-> TRUE, message |-> "Location recorded",
                              location |-> r.item])
       \/ /\ StoreError(r)
          /\ UNCHANGED employees
    /\ UNCHANGED <<now, attKeySchema, locations, attendance, clockInWins, createWins>>

----------------------------------------------------------------------------
(* Ledger: GET /api/locations/latest (the same code in both servers) *)

\* the forEach loop: latestLocations as the object's values in key order
\* (the order in which the employee ids were first set)
RECURSIVE GroupLatest(_, _)
GroupLatest(scanned, latest) ==
    IF scanned = <<>> THEN latest
    ELSE LET location == Head(scanned)
             at == {i \in 1 .. Len(latest) :
                      latest[i].employeeId = location.employeeId}
         IN IF at = {}
            THEN GroupLatest(Tail(scanned), Append(latest, location))
            ELSE LET i == CHOOSE i \in at : TRUE
                 IN IF DateGreater(DateOf(location, "timestamp"),
                                   DateOf(latest[i], "timestamp"))
                    THEN GroupLatest(Tail(scanned), [latest EXCEPT ![i] = location])
                    ELSE GroupLatest(Tail(scanned), latest)

LatestArray(scanned) == SortBy(GroupLatest(scanned, <<>>), "timestamp", TRUE)

LatestBegin ==
    /\ Free
    /\ Accept([op |-> "latest", pc |-> "scan"])
    /\ UNCHANGED <<now, attKeySchema, employees, locations, attendance, last,
                   clockInWins, createWins>>

LatestScan(r) ==
    /\ r.op = "latest" /\ r.pc = "scan"
    /\ \/ \E scanned \in ScanOrders(Scan(locations)) :
             Respond(r, 200, LatestArray(scanned))
       \/ StoreError(r)
    /\ UNCHANGED <<now, attKeySchema, employees, locations, attendance,
                   clockInWins, createWins>>

----------------------------------------------------------------------------
(* Ledger: GET /api/locations/history/:employeeId?date= (first server) *)

NoDate == [absent |-> TRUE]
DateParam(d) == [date |-> d]

HistoryFilter(item, employeeId, date) ==
    item.employeeId = employeeId /\ DateParam(item.date) = date

HistoryBegin(employeeId, date) ==
    LET req == [op |-> "history", pc |-> "scan", employeeId |-> employeeId,
                date |-> date]
    IN /\ Free
       /\ IF employeeId = "" \/ date = NoDate
          THEN Reject(req, 400, [error |-> "Employee ID and Date are required"])
          ELSE Accept(req) /\ UNCHANGED last
       /\ UNCHANGED <<now, attKeySchema, employees, locations, attendance,
                      clockInWins, createWins>>

HistoryScan(r) ==
    /\ r.op = "history" /\ r.pc = "scan"
    /\ \/ \E scanned \in ScanOrders({item \in Scan(locations) :
                                HistoryFilter(item, r.employeeId, r.date)}) :
             Respond(r, 200, SortBy(scanned, "recordedAt", FALSE))
       \/ StoreError(r)
    /\ UNCHANGED <<now, attKeySchema, employees, locations, attendance,
                   clockInWins, createWins>>

----------------------------------------------------------------------------
(* Attendance: POST /api/attendance (second server). Its ATTENDANCE_TABLE,   *)
(* 'EmployeeAttendance', is keyed by attendanceId; the variable attendance   *)
(* is that table in the specifications of the second server.                 *)

AttendanceStatuses == {"clock_in", "clock_out"}

AttendanceRecord(employeeId, status, timestamp, t) ==
    [attendanceId |-> <<employeeId, t>>,
     employeeId   |-> employeeId,
     status       |-> status,
     timestamp    |-> RecordTime(timestamp, t),
     date         |-> formatDate(NewDate(RecordTime(timestamp, t)).time),
     time         |-> formatTime(NewDate(RecordTime(timestamp, t)).time)]

EmployeeStatusSets(status, t) ==
    [status      |-> IF status = "clock_in" THEN "active" ELSE "inactive",
     lastUpdated |-> IsoString(t)]

AttendanceCreateBegin(employeeId, status, timestamp) ==
    LET req == [op |-> "attendance", pc |-> "put", employeeId |-> employeeId,
                status |-> status, timestamp |-> timestamp, t |-> now]
    IN /\ Free
       /\ IF employeeId = "" \/ status = ""
          THEN Reject(req, 400, [error |-> "Employee ID and status are required"])
          ELSE IF ~NewDate(RecordTime(timestamp, now)).valid
          THEN \* toISOString of an Invalid Date throws: the catch block answers
               Reject(req, 500, [error |-> "Invalid time value"])
          ELSE /\ Accept(req @@ [item |-> AttendanceRecord(employeeId, status,
                                                          timestamp, now)])
               /\ UNCHANGED last
       /\ UNCHANGED <<now, attKeySchema, employees, locations, attendance,
                      clockInWins, createWins>>

AttendanceCreatePut(r) ==
    /\ r.op = "attendance" /\ r.pc = "put"
    /\ \/ /\ attendance' = Put(attendance, r.item.attendanceId, r.item)
          /\ Advance(r, [r EXCEPT !.pc = "update"])
          /\ UNCHANGED last
       \/ /\ StoreError(r)
          /\ UNCHANGED attendance
    /\ UNCHANGED <<now, attKeySchema, employees, locations, clockInWins, createWins>>

AttendanceCreateUpdate(r) ==
    /\ r.op = "attendance" /\ r.pc = "update"
    /\ \/ /\ employees' = Update(employees, r.employeeId,
                                 [employeeId |-> r.employeeId],
                                 EmployeeStatusSets(r.status, r.t))
          /\ Respond(r, 200, [success |-> TRUE,
                              message |-> <<"Attendance ", r.status, " recorded">>])
       \/ /\ StoreError(r)
          /\ UNCHANGED employees
    /\ UNCHANGED <<now, attKeySchema, locations, attendance, clockInWins, createWins>>

----------------------------------------------------------------------------
(* Attendance: GET /api/admin/stats (first server). The route is registered *)
(* twice; Express runs the handlers of a route in the order they were       *)
(* registered and the first one answers without calling next(), so the      *)
(* second never runs.                                                       *)

\* Number.prototype.toString of a count
toString(n) == [digits |-> n]

\* record.clockInTime && (!record.clockOutTime || record.clockOutTime === "")
ActiveNow(record) ==
    "clockInTime" \in DOMAIN record /\ "clockOutTime" \notin DOMAIN record

\* the handler registered first
AdminStats(totalEmployees, attendanceRecords) ==
    [employees     |-> toString(totalEmployees),
     present       |-> toString(Cardinality(attendanceRecords)),
     active        |-> toString(Cardinality({record \in attendanceRecords :
                                                ActiveNow(record)})),
     leave_pending |-> toString(0)]

\* the handler registered second (never dispatched to)
AdminStatsSecond(allEmployees, todayAttendance) ==
    LET present == {record \in todayAttendance :
                       "status" \in DOMAIN record /\ record.status = "present"}
    IN [employees     |-> toString(Cardinality(allEmployees)),
        present       |-> toString(Cardinality(present)),
        active        |-> toString(Cardinality({record \in present :
                                                   ActiveNow(record)})),
        leave_pending |-> toString(0)]

StatsBegin ==
    /\ Free
    /\ Accept([op |-> "stats", pc |-> "employees", today |-> getISTDateString(now)])
    /\ UNCHANGED <<now, attKeySchema, employees, locations, attendance, last,
                   clockInWins, createWins>>

StatsEmployees(r) ==
    /\ r.op = "stats" /\ r.pc = "employees"
    /\ \/ /\ Advance(r, [r EXCEPT !.pc = "attendance"]
                        @@ [totalEmployees |-> Cardinality(Scan(employees))])
          /\ UNCHANGED last
       \/ StoreError(r)
    /\ UNCHANGED <<now, attKeySchema, employees, locations, attendance,
                   clockInWins, createWins>>

StatsAttendance(r) ==
    /\ r.op = "stats" /\ r.pc = "attendance"
    /\ \/ Respond(r, 200,
                  [success |-> TRUE,
                   stats |-> AdminStats(r.totalEmployees,
                                        {record \in Scan(attendance) :
                                            record.date = r.today})])
       \/ StoreError(r)
    /\ UNCHANGED <<now, attKeySchema, employees, locations, attendance,
                   clockInWins, createWins>>

----------------------------------------------------------------------------
(* Ledger: GET /api/employees/:employeeId/locations (first server) *)

\* const { limit = 50 } = req.query
DefaultLimit == 50

\* scan with Limit: the store evaluates at most limit items, in its order,
\* before it applies the FilterExpression
Limited(scanned, limit) ==
    SubSeq(scanned, 1, IF Len(scanned) < limit THEN Len(scanned) ELSE limit)

RECURSIVE FilterEmployee(_, _)
FilterEmployee(scanned, employeeId) ==
    IF scanned = <<>> THEN <<>>
    ELSE IF Head(scanned).employeeId = employeeId
         THEN <<Head(scanned)>> \o FilterEmployee(Tail(scanned), employeeId)
         ELSE FilterEmployee(Tail(scanned), employeeId)

EmployeeLocationsBegin(employeeId, limit) ==
    /\ Free
    /\ Accept([op |-> "employeeLocations", pc |-> "scan",
               employeeId |-> employeeId, limit |-> limit])
    /\ UNCHANGED <<now, attKeySchema, employees, locations, attendance, last,
                   clockInWins, createWins>>

EmployeeLocationsScan(r) ==
    /\ r.op = "employeeLocations" /\ r.pc = "scan"
    /\ \/ \E scanned \in ScanOrders(Scan(locations)) :
             Respond(r, 200,
                     SortBy(FilterEmployee(Limited(scanned, r.limit), r.employeeId),
                            "timestamp", TRUE))
       \/ StoreError(r)
    /\ UNCHANGED <<now, attKeySchema, employees, locations, attendance,
                   clockInWins, createWins>>

(* Directory: GET /api/employees (first server) *)

ListEmployeesBegin ==
    /\ Free
    /\ Accept([op |-> "listEmployees", pc |-> "scan"])
    /\ UNCHANGED <<now, attKeySchema, employees, locations, attendance, last,
                   clockInWins, createWins>>

\* res.json(result.Items || []): the items in the order the scan gives them
ListEmployeesScan(r) ==
    /\ r.op = "listEmployees" /\ r.pc = "scan"
    /\ \/ \E scanned \in ScanOrders(Scan(employees)) :
             Respond(r, 200, scanned)
       \/ StoreError(r)
    /\ UNCHANGED <<now, attKeySchema, employees, locations, attendance,
                   clockInWins, createWins>>

----------------------------------------------------------------------------
(* Directory: GET /api/employees/:employeeId (first server) *)

GetEmployeeBegin(employeeId) ==
    /\ Free
    /\ Accept([op |-> "getEmployee", pc |-> "get", employeeId |-> employeeId])
    /\ UNCHANGED <<now, attKeySchema, employees, locations, attendance, last,
                   clockInWins, createWins>>

GetEmployeeGetMutant(r) ==
    /\ r.op = "getEmployee" /\ r.pc = "get"
    /\ \/ /\ r.employeeId \in DOMAIN employees
          /\ Respond(r, 200, employees[r.employeeId])
          /\ employees' = Update(employees, r.employeeId,
                                 [employeeId |-> r.employeeId],
                                 [lastUpdated |-> getISTTimestamp(now)])
       \/ /\ r.employeeId \notin DOMAIN employees
          /\ Respond(r, 404, [error |-> "Employee not found"])
          /\ UNCHANGED employees
       \/ StoreError(r) /\ UNCHANGED employees
    /\ UNCHANGED <<now, attKeySchema, locations, attendance,
                   clockInWins, createWins>>

GetEmployeeGet(r) ==
    /\ r.op = "getEmployee" /\ r.pc = "get"
    /\ \/ /\ r.employeeId \in DOMAIN employees
          /\ Respond(r, 200, employees[r.employeeId])
       \/ /\ r.employeeId \notin DOMAIN employees
          /\ Respond(r, 404, [error |-> "Employee not found"])
       \/ StoreError(r)
    /\ UNCHANGED <<now, attKeySchema, employees, locations, attendance,
                   clockInWins, createWins>>

----------------------------------------------------------------------------

----------------------------------------------------------------------------
(* The clock. *)

Tick ==
    /\ now < MaxTime
    /\ now' = now + 1
    /\ UNCHANGED <<attKeySchema, employees, locations, attendance, reqs, last,
                   clockInWins, createWins>>

----------------------------------------------------------------------------
(* Specifications. *)

EmptyTable == [k \in {} |-> Null]

Days == 0 .. ((MaxTime + IstOffset) \div TicksPerDay)

EmployeeDays == AttendanceEmployees \X Days

Init ==
    /\ now = 0
    /\ attKeySchema \in {"attendanceId", "employeeId_date"}
    /\ employees = EmptyTable
    /\ locations = EmptyTable
    /\ attendance = EmptyTable
    /\ reqs = EmptyBag
    /\ last = [req |-> Idle, resp |-> [status |-> 0, body |-> Null]]
    /\ clockInWins = [k \in EmployeeDays |-> 0]
    /\ createWins = [e \in DirectoryIds |-> 0]

NextAttendance ==
    \/ \E e \in AttendanceEmployees : ClockInBegin(e)
    \/ \E r \in BagToSet(reqs) : ClockInPut(r)
    \/ \E e \in AttendanceEmployees : ClockOutBegin(e)
    \/ \E r \in BagToSet(reqs) : ClockOutScan(r)
    \/ \E r \in BagToSet(reqs) : ClockOutUpdate(r)
    \/ \E e \in AttendanceEmployees : StatusBegin(e)
    \/ \E r \in BagToSet(reqs) : StatusScan(r)
    \/ Tick

SpecAttendance == Init /\ [][NextAttendance]_vars

NextStats ==
    \/ \E e \in AttendanceEmployees : ClockInBegin(e)
    \/ \E r \in BagToSet(reqs) : ClockInPut(r)
    \/ \E e \in AttendanceEmployees : ClockOutBegin(e)
    \/ \E r \in BagToSet(reqs) : ClockOutScan(r)
    \/ \E r \in BagToSet(reqs) : ClockOutUpdate(r)
    \/ StatsBegin
    \/ \E r \in BagToSet(reqs) : StatsEmployees(r)
    \/ \E r \in BagToSet(reqs) : StatsAttendance(r)
    \/ Tick

SpecStats == Init /\ [][NextStats]_vars

\* the directory specifications leave the Attendance table alone
InitDirectory == Init /\ attKeySchema = "employeeId_date"

CreateIds == DirectoryIds \cup {""}
CreatePasswords == {"", "pw1"}

\* the request bodies sent to POST /api/employees
CreateBodies ==
    {[name |-> "A", password |-> ""], [name |-> "B", password |-> "pw1"],
     [name |-> "", password |-> ""]}

NextCreate ==
    \/ \E e \in CreateIds, b \in CreateBodies : CreateV1Begin(e, b.name, b.password)
    \/ \E e \in CreateIds, b \in CreateBodies : CreateV2Begin(e, b.name, b.password)
    \/ \E r \in BagToSet(reqs) : CreatePut(r)
    \/ Tick

SpecCreate == InitDirectory /\ [][NextCreate]_vars

LoginIds == DirectoryIds \cup {UnknownId, ""}
NewPasswords == {"", "pw1"}
OldPasswords == {"", DefaultPassword, "pw1"}
LoginPasswords == {"", DefaultPassword, "pw1"}

\* the request bodies sent to POST /api/login
LoginBodies ==
    {b \in [employeeId : LoginIds, password : LoginPasswords] :
        /\ (b.employeeId = "") = (b.password = "")
        /\ b.employeeId = UnknownId => b.password = "pw1"}

\* the requests sent to PUT /api/employees/:employeeId/password
ChangePasswordBodies ==
    {b \in [employeeId : DirectoryIds \cup {UnknownId},
            oldPassword : OldPasswords, newPassword : NewPasswords] :
        /\ b.newPassword = "" => (b.oldPassword = "" /\ b.employeeId \in DirectoryIds)
        /\ b.employeeId = UnknownId => b.oldPassword = ""}

NextLogin ==
    \/ \E e \in DirectoryIds, p \in CreatePasswords :
          CreateV1Begin(e, "A", p)
    \/ \E r \in BagToSet(reqs) : CreatePut(r)
    \/ \E b \in ChangePasswordBodies :
          ChangePasswordBegin(b.employeeId, b.oldPassword, b.newPassword)
    \/ \E r \in BagToSet(reqs) : ChangePasswordGet(r)
    \/ \E r \in BagToSet(reqs) : ChangePasswordUpdate(r)
    \/ \E b \in LoginBodies : LoginV1Begin(b.employeeId, b.password)
    \/ \E b \in LoginBodies : LoginV2Begin(b.employeeId, b.password)
    \/ \E r \in BagToSet(reqs) : LoginGet(r)
    \/ SeedV1Begin
    \/ \E r \in BagToSet(reqs) : SeedV1Put(r)

SpecLogin == InitDirectory /\ [][NextLogin]_vars

\* the request bodies sent to POST /api/locations
LocationBodies ==
    {[latitude |-> Number(13), longitude |-> Number(78)],
     [latitude |-> Number(0), longitude |-> Number(78)],
     [latitude |-> Number(13), longitude |-> Number(0)],
     [latitude |-> Undefined, longitude |-> Number(78)]}

NextLedger ==
    \/ \E e \in LedgerEmployees \cup {""}, b \in LocationBodies :
          RecordV1Begin(e, b.latitude, b.longitude)
    \/ \E r \in BagToSet(reqs) : RecordV1Put(r)
    \/ LatestBegin
    \/ \E r \in BagToSet(reqs) : LatestScan(r)
    \/ \E e \in LedgerEmployees, d \in {DateParam(d) : d \in Days} \cup {NoDate} :
          HistoryBegin(e, d)
    \/ \E r \in BagToSet(reqs) : HistoryScan(r)
    \/ \E e \in LedgerEmployees : EmployeeLocationsBegin(e, DefaultLimit)
    \/ \E r \in BagToSet(reqs) : EmployeeLocationsScan(r)
    \/ Tick

SpecLedger == InitDirectory /\ [][NextLedger]_vars

\* req.body.timestamp of POST /api/locations: absent, or the capture time
\* the device reports
CallerTimestamps == {Undefined, IsoString(0)}

\* the requests sent to POST /api/locations of the second server
RecordV2Requests ==
    {q \in [employeeId : LedgerEmployees \cup {""}, body : LocationBodies,
            timestamp : CallerTimestamps] :
        /\ q.timestamp # Undefined =>
              (q.employeeId = "E1" /\ ~Falsy(q.body.latitude) /\ ~Falsy(q.body.longitude))
        /\ q.employeeId # "E1" => q.body.latitude = Number(13)
        /\ q.employeeId = "" => q.body.longitude = Number(78)}

NextLedgerV2 ==
    \/ \E q \in RecordV2Requests :
          RecordV2Begin(q.employeeId, q.body.latitude, q.body.longitude, q.timestamp)
    \/ \E r \in BagToSet(reqs) : RecordV2Put(r)
    \/ \E r \in BagToSet(reqs) : RecordV2Update(r)
    \/ LatestBegin
    \/ \E r \in BagToSet(reqs) : LatestScan(r)
    \/ Tick

SpecLedgerV2 == InitDirectory /\ [][NextLedgerV2]_vars

\* record alone, with fixes that differ in their coordinates
RecordBodies ==
    {[latitude |-> Number(13), longitude |-> Number(78)],
     [latitude |-> Number(14), longitude |-> Number(78)],
     [latitude |-> Undefined, longitude |-> Number(78)]}

NextRecord ==
    \/ \E e \in LedgerEmployees \cup {""}, b \in RecordBodies :
          RecordV1Begin(e, b.latitude, b.longitude)
    \/ \E r \in BagToSet(reqs) : RecordV1Put(r)
    \/ Tick

SpecRecord == InitDirectory /\ [][NextRecord]_vars

\* the second server: its Attendance table is keyed by attendanceId
InitAttendanceV2 == Init /\ attKeySchema = "attendanceId"

NextAttendanceV2 ==
    \/ \E e \in AttendanceEmployees \cup {""}, s \in AttendanceStatuses \cup {""} :
          AttendanceCreateBegin(e, s, Undefined)
    \/ \E r \in BagToSet(reqs) : AttendanceCreatePut(r)
    \/ \E r \in BagToSet(reqs) : AttendanceCreateUpdate(r)
    \/ Tick

SpecAttendanceV2 == InitAttendanceV2 /\ [][NextAttendanceV2]_vars

\* the read endpoints of the first server and the login of both, over tables
\* that create, record and clockIn fill
NextReads ==
    \/ \E e \in DirectoryIds : CreateV1Begin(e, "A", "pw1")
    \/ \E r \in BagToSet(reqs) : CreatePut(r)
    \/ RecordV1Begin("E1", Number(13), Number(78))
    \/ \E r \in BagToSet(reqs) : RecordV1Put(r)
    \/ \E e \in AttendanceEmployees : ClockInBegin(e)
    \/ \E r \in BagToSet(reqs) : ClockInPut(r)
    \/ \E e \in DirectoryIds \cup {UnknownId} : GetEmployeeBegin(e)
    \/ \E r \in BagToSet(reqs) : GetEmployeeGet(r)
    \/ ListEmployeesBegin
    \/ \E r \in BagToSet(reqs) : ListEmployeesScan(r)
    \/ \E e \in DirectoryIds, p \in {"", "pw1"} : LoginV1Begin(e, p)
    \/ \E e \in DirectoryIds : LoginV2Begin(e, DefaultPassword)
    \/ \E r \in BagToSet(reqs) : LoginGet(r)
    \/ LatestBegin
    \/ \E r \in BagToSet(reqs) : LatestScan(r)
    \/ \E d \in {DateParam(getISTDateString(0)), NoDate} : HistoryBegin("E1", d)
    \/ \E r \in BagToSet(reqs) : HistoryScan(r)
    \/ \E e \in AttendanceEmployees : StatusBegin(e)
    \/ \E r \in BagToSet(reqs) : StatusScan(r)
    \/ StatsBegin
    \/ \E r \in BagToSet(reqs) : StatsEmployees(r)
    \/ \E r \in BagToSet(reqs) : StatsAttendance(r)

SpecReads == InitDirectory /\ [][NextReads]_vars

----------------------------------------------------------------------------
(* What the claims are stated with. *)

\* this step sends the response of the request r in flight
Answers(r) == reqs' = reqs (-) SetToBag({r}) /\ last'.req = r

\* this step is a step of the request r in flight
Moves(r) == CopiesIn(r, reqs') < CopiesIn(r, reqs)

\* the attendance records of one employee on one day
RecordsOf(e, d) ==
    {k \in DOMAIN attendance : attendance[k].employeeId = e /\ attendance[k].date = d}

HasClockOut(item) == "clockOutTime" \in DOMAIN item

\* C1: for an employee whose record of today was created by clockIn and has
\* seen no clockOut, status answers isClockedIn = true with that record.
C1_StatusAfterClockIn ==
    [][\A r \in BagToSet(reqs) :
        (Answers(r) /\ r.op = "status" /\ last'.resp.status = 200)
        => \A k \in RecordsOf(r.employeeId, getISTDateString(now)) :
              ~HasClockOut(attendance[k])
              => /\ last'.resp.body.isClockedIn
                 /\ last'.resp.body.data = attendance[k]]_vars

\* C2: once today's record has been clocked out, status answers
\* isClockedIn = false; status answers true only with a record whose status
\* is 'present', whose clock-in time is set and whose clock-out time is not.
C2_StatusAfterClockOut ==
    [][\A r \in BagToSet(reqs) :
        (Answers(r) /\ r.op = "status" /\ last'.resp.status = 200)
        => /\ \A k \in RecordsOf(r.employeeId, getISTDateString(now)) :
                 HasClockOut(attendance[k]) => ~last'.resp.body.isClockedIn
           /\ last'.resp.body.isClockedIn
                 => /\ last'.resp.body.data.status = "present"
                    /\ "clockInTime" \in DOMAIN last'.resp.body.data
                    /\ ~HasClockOut(last'.resp.body.data)]_vars

\* C3: a clockIn for an employee and day without a record answers 200 and
\* adds the record with the request's clock-in time; a clockIn for an
\* employee and day that has a record (clocked out or not) answers 400
\* 'Already clocked in for today.'; neither changes an existing record.
\* (A store failure answers 500 and writes nothing.)
C3_SecondClockInRejected ==
    [][\A r \in BagToSet(reqs) :
        (Answers(r) /\ r.op = "clockin")
        => LET item == r.item
               had  == RecordsOf(item.employeeId, item.date)
           IN /\ \A k \in DOMAIN attendance :
                    k \in DOMAIN attendance' /\ attendance'[k] = attendance[k]
              /\ had # {} =>
                    /\ last'.resp.status \in {400, 500}
                    /\ last'.resp.status = 400 =>
                          last'.resp.body.error = "Already clocked in for today."
                    /\ attendance' = attendance
              /\ had = {} =>
                    /\ last'.resp.status \in {200, 500}
                    /\ last'.resp.status = 500 => attendance' = attendance
                    /\ last'.resp.status = 200 =>
                          \E k \in DOMAIN attendance' :
                             /\ DOMAIN attendance' = DOMAIN attendance \cup {k}
                             /\ attendance'[k] = item
                             /\ last'.resp.body.time = item.clockInTime]_vars

\* a clockIn was refused for a day whose record has been clocked out, at a
\* later time than the record's clock-in
C3_Witness ==
    /\ Answered("clockin") /\ last.resp.status = 400
    /\ \E k \in RecordsOf(last.req.item.employeeId, last.req.item.date) :
          /\ HasClockOut(attendance[k])
          /\ attendance[k].clockInTime < last.req.item.clockInTime

\* C4: of the clockIn requests for one employee and day, however they
\* interleave, exactly one is answered 200 once any of them has reached the
\* store, the others 400, and the table then holds exactly one record for
\* that employee and day.
C4_OneClockInWinner ==
    /\ \A ed \in EmployeeDays :
          /\ Cardinality(RecordsOf(ed[1], ed[2])) = clockInWins[ed]
          /\ clockInWins[ed] <= 1
    /\ (Answered("clockin") /\ last.resp.status = 400)
          => clockInWins[<<last.req.item.employeeId, last.req.item.date>>] = 1

\* the request that lost began before the winner did: the two overlapped
C4_Witness ==
    /\ Answered("clockin") /\ last.resp.status = 400
    /\ \E k \in RecordsOf(last.req.item.employeeId, last.req.item.date) :
          last.req.item.clockInTime < attendance[k].clockInTime

\* C5: a clockOut that finds no record of its employee for its day answers
\* 404 and writes nothing; no step of a clockOut adds a record.
C5_ClockOutWithoutRecord ==
    [][\A r \in BagToSet(reqs) :
        (r.op = "clockout" /\ Moves(r))
        => /\ DOMAIN attendance' = DOMAIN attendance
           /\ (r.pc = "scan"
                /\ RecordsOf(r.employeeId, r.todayStr) = {})
              => /\ Answers(r)
                 /\ last'.resp.status \in {404, 500}
                 /\ last'.resp.status = 404 =>
                       last'.resp.body.error = "No attendance record found for today."
                 /\ attendance' = attendance]_vars

\* a clockOut was answered 404 on a day without a record, while the
\* employee has a record of another day
C5_Witness ==
    /\ Answered("clockout") /\ last.resp.status = 404
    /\ RecordsOf(last.req.employeeId, last.req.todayStr) = {}
    /\ \E d \in Days : RecordsOf(last.req.employeeId, d) # {}

----------------------------------------------------------------------------
(* Directory claims. *)

\* C6: a create that reaches the store for an identifier the directory has
\* is answered 400 'Employee ID already exists' whatever its name and
\* password, and no create that is not answered 200 changes the directory;
\* a create for an identifier the directory lacks is answered 200 and
\* stores its item; at most one create per identifier is ever answered 200.
\* (A store failure is answered 500 and writes nothing.)
C6_DuplicateCreateRejected ==
    [][/\ \A e \in DirectoryIds : createWins'[e] <= 1
       /\ (IsCreate(last'.req) /\ last' # last /\ last'.resp.status # 200)
             => employees' = employees
       /\ \A r \in BagToSet(reqs) :
            (Answers(r) /\ IsCreate(r))
            => IF r.employeeId \in DOMAIN employees
               THEN /\ last'.resp.status \in {400, 500}
                    /\ last'.resp.status = 400 =>
                          last'.resp.body.error = "Employee ID already exists"
                    /\ employees' = employees
               ELSE /\ last'.resp.status \in {200, 500}
                    /\ last'.resp.status = 200 =>
                          /\ DOMAIN employees' = DOMAIN employees \cup {r.employeeId}
                          /\ employees'[r.employeeId].name = r.name
                          /\ \A e \in DOMAIN employees : employees'[e] = employees[e]
                          /\ createWins'[r.employeeId] = createWins[r.employeeId] + 1]_vars

\* a create was refused as a duplicate although its name differs from the
\* stored one and it began before the create that stored the employee
C6_Witness ==
    /\ IsCreate(last.req) /\ last.resp.status = 400
    /\ last.resp.body.error = "Employee ID already exists"
    /\ createWins[last.req.employeeId] = 1
    /\ last.req.name # employees[last.req.employeeId].name
    /\ last.req.password # employees[last.req.employeeId].password
    /\ last.req.item.createdAt < employees[last.req.employeeId].createdAt

\* C9: a login with the identifier of a stored employee and the password
\* stored for it is answered 200 with the employee's attributes except
\* password, and requiresPasswordChange true exactly when the stored
\* passwordSet is not true; the directory is as before.
C9_LoginReturnsRecordWithoutPassword ==
    [][\A r \in BagToSet(reqs) :
        (/\ Answers(r) /\ IsLogin(r)
         /\ r.employeeId \in DOMAIN employees
         /\ "password" \in DOMAIN employees[r.employeeId]
         /\ r.password = employees[r.employeeId].password)
        => LET item == employees[r.employeeId]
               body == last'.resp.body
           IN /\ employees' = employees
              /\ last'.resp.status \in {200, 500}
              /\ last'.resp.status = 200 =>
                    /\ DOMAIN body.employee = (DOMAIN item) \ {"password"}
                    /\ \A f \in DOMAIN body.employee : body.employee[f] = item[f]
                    /\ body.requiresPasswordChange
                         = ~("passwordSet" \in DOMAIN item /\ item.passwordSet)]_vars

\* a login was answered 200 for an employee who has changed the password
C9_Witness ==
    /\ IsLogin(last.req) /\ last.resp.status = 200
    /\ last.resp.body.requiresPasswordChange = FALSE
    /\ last.resp.body.employee.passwordSet = TRUE

\* C10: a login with an identifier and a password is answered with status
\* 401 and the error 'Invalid credentials', and nothing else, both when
\* the identifier is unknown and when the password is not the stored one.
C10_InvalidCredentialsUniform ==
    [][\A r \in BagToSet(reqs) :
        (/\ Answers(r) /\ IsLogin(r) /\ last'.resp.status # 500
         /\ \/ r.employeeId \notin DOMAIN employees
            \/ "password" \notin DOMAIN employees[r.employeeId]
            \/ r.password # employees[r.employeeId].password)
        => last'.resp = [status |-> 401, body |-> [error |-> "Invalid credentials"]]]_vars

\* the second server answered 401 to a login for an unknown identifier
\* while the directory has an employee
C10_Witness ==
    /\ last.req.op = "loginV2" /\ last.resp.status = 401
    /\ last.req.employeeId \notin DOMAIN employees
    /\ employees # EmptyTable

----------------------------------------------------------------------------
(* Ledger claims *)

\* the instant a stored fix was captured at: the one its timestamp string
\* denotes
CaptureTime(fix) == fix.timestamp.t

FixesOf(e) == {fix \in Scan(locations) : fix.employeeId = e}

\* C7: latestPerEmployee() over the fixes record() stored for M distinct
\* employees answers exactly M entries, one per employee, each of them a
\* stored fix of that employee whose capture timestamp is the maximum among
\* that employee's fixes.
C7_LatestPerEmployee ==
    [][\A r \in BagToSet(reqs) :
          (r.op = "latest" /\ Answers(r) /\ last'.resp.status = 200) =>
              LET result == last'.resp.body
                  tracked == {fix.employeeId : fix \in Scan(locations)}
              IN /\ Len(result) = Cardinality(tracked)
                 /\ \A e \in tracked :
                       \E i \in 1 .. Len(result) :
                          /\ result[i] \in FixesOf(e)
                          /\ \A fix \in FixesOf(e) :
                                CaptureTime(fix) <= CaptureTime(result[i])]_vars

\* the body of a record request carries an employee id and two numbers
ValidFix(req) ==
    /\ req.employeeId # ""
    /\ req.latitude # Undefined
    /\ req.longitude # Undefined

\* C8: record(employeeId, lat, lon) with an employee id and any numeric
\* latitude and longitude, 0 included, is not refused as invalid and stores
\* the fix with the latitude and longitude sent; a history(employeeId) for
\* the fix's date answers a list that contains every stored fix of that
\* employee and date.
C8_RecordThenHistory ==
    [][/\ (last'.req.op = "recordV1" /\ ValidFix(last'.req)) =>
              last'.resp.status # 400
       /\ \A r \in BagToSet(reqs) :
             /\ (r.op = "recordV1" /\ Answers(r) /\ last'.resp.status = 200) =>
                   /\ r.item.locationId \in DOMAIN locations'
                   /\ locations'[r.item.locationId].latitude = r.latitude.number
                   /\ locations'[r.item.locationId].longitude = r.longitude.number
             /\ (r.op = "history" /\ Answers(r) /\ last'.resp.status = 200) =>
                   \A fix \in FixesOf(r.employeeId) :
                      DateParam(fix.date) = r.date =>
                         \E i \in 1 .. Len(last'.resp.body) :
                            last'.resp.body[i] = fix]_vars

----------------------------------------------------------------------------
(* Attendance of the second server *)

\* C11: in every reachable state the Attendance table has at most one
\* record per employee and calendar day.
C11_OneRecordPerDay ==
    \A k1, k2 \in DOMAIN attendance :
        (/\ attendance[k1].employeeId = attendance[k2].employeeId
         /\ attendance[k1].date = attendance[k2].date) => k1 = k2

----------------------------------------------------------------------------
(* Ledger claims, continued *)

\* C12: a record answered 200 adds exactly one fix to the ledger, under a
\* key the ledger did not have, and no step changes or removes a fix the
\* ledger has.
C12_LedgerAppendOnly ==
    [][/\ \A k \in DOMAIN locations :
             k \in DOMAIN locations' /\ locations'[k] = locations[k]
       /\ \A r \in BagToSet(reqs) :
             (r.op = "recordV1" /\ Answers(r) /\ last'.resp.status = 200) =>
                 /\ r.item.locationId \notin DOMAIN locations
                 /\ DOMAIN locations' = DOMAIN locations \cup {r.item.locationId}
                 /\ locations'[r.item.locationId] = r.item]_vars

----------------------------------------------------------------------------
(* Directory claims, continued *)

\* the attributes of an item other than the ones changePassword sets
Kept(item) == [f \in (DOMAIN item) \ {"password", "passwordSet", "lastUpdated"} |-> item[f]]

\* C13: a changePassword for an employee read with passwordSet true goes on
\* to its update only when old is the password read; with old missing it is
\* answered 400 'Old password is required', with another old 401 'Old
\* password is incorrect', and a changePassword that is not answered 200
\* leaves the directory as it is. For an employee read with passwordSet not
\* true it goes on to the update whatever old is. The update answered 200
\* sets password to new, passwordSet to true and lastUpdated, and nothing
\* else. (A store failure is answered 500 and writes nothing.)
C13_ChangePasswordChecksOld ==
    [][\A r \in BagToSet(reqs) :
        (Moves(r) /\ r.op = "changePassword") =>
            IF r.pc = "get"
            THEN /\ employees' = employees
                 /\ r.employeeId \in DOMAIN employees =>
                      LET item == employees[r.employeeId]
                      IN IF "passwordSet" \in DOMAIN item /\ item.passwordSet
                         THEN IF r.oldPassword = ""
                              THEN /\ Answers(r)
                                   /\ last'.resp.status \in {400, 500}
                                   /\ last'.resp.status = 400 =>
                                        last'.resp.body.error = "Old password is required"
                              ELSE IF r.oldPassword # item.password
                              THEN /\ Answers(r)
                                   /\ last'.resp.status \in {401, 500}
                                   /\ last'.resp.status = 401 =>
                                        last'.resp.body.error = "Old password is incorrect"
                              ELSE Answers(r) => last'.resp.status = 500
                         ELSE Answers(r) => last'.resp.status = 500
            ELSE /\ Answers(r)
                 /\ last'.resp.status \in {200, 500}
                 /\ last'.resp.status = 500 => employees' = employees
                 /\ last'.resp.status = 200 =>
                      /\ DOMAIN employees' = DOMAIN employees
                      /\ \A e \in (DOMAIN employees) \ {r.employeeId} :
                            employees'[e] = employees[e]
                      /\ employees'[r.employeeId].password = r.newPassword
                      /\ employees'[r.employeeId].passwordSet = TRUE
                      /\ employees'[r.employeeId].lastUpdated = r.updated
                      /\ Kept(employees'[r.employeeId]) = Kept(employees[r.employeeId])]_vars

\* a changePassword with a wrong old password was refused for an employee
\* whose password had been set
C13_Witness ==
    /\ last.req.op = "changePassword" /\ last.resp.status = 401
    /\ last.req.oldPassword # ""
    /\ last.req.employeeId \in DOMAIN employees
    /\ employees[last.req.employeeId].passwordSet = TRUE
    /\ employees[last.req.employeeId].password # last.req.oldPassword

\* the credentials stored for an employee
Credentials(item) == [f \in (DOMAIN item) \cap {"password", "passwordSet"} |-> item[f]]

----------------------------------------------------------------------------
(* Ledger claims, continued *)

\* C15: a record request is answered 400 exactly when its employee id, its
\* latitude or its longitude is absent, and a record answered 400 writes
\* nothing to the ledger or to the directory.
C15_MissingFieldsExactly ==
    [][(last' # last /\ last'.req.op \in {"recordV1", "recordV2"}) =>
          /\ (last'.resp.status = 400) <=> ~ValidFix(last'.req)
          /\ last'.resp.status = 400 =>
                (locations' = locations /\ employees' = employees)]_vars

----------------------------------------------------------------------------
(* Attendance claims, continued *)

\* the attendance records of a day
RecordsOn(day) == {record \in Scan(attendance) : record.date = day}

PresentOn(day) ==
    {record \in RecordsOn(day) : "status" \in DOMAIN record /\ record.status = "present"}

\* C16: dailyStats() answers present = the number of today's attendance
\* records whose status is 'present' and active = the number of those
\* present records that have no clock-out time.
C16_DailyStatsCounts ==
    [][\A r \in BagToSet(reqs) :
          (r.op = "stats" /\ Answers(r) /\ last'.resp.status = 200) =>
              /\ last'.resp.body.stats.present
                    = toString(Cardinality(PresentOn(r.today)))
              /\ last'.resp.body.stats.active
                    = toString(Cardinality({record \in PresentOn(r.today) :
                                               ~HasClockOut(record)}))]_vars

\* the attributes of an attendance record other than the clock-out time
BesidesClockOut(record) == [f \in (DOMAIN record) \ {"clockOutTime"} |-> record[f]]

----------------------------------------------------------------------------
(* Directory and ledger of the second server *)

\* C18: an update for a key the table lacks creates nothing and fails: a
\* record for an employee id the directory lacks is not answered 200 by
\* its employee update and leaves the directory without that id; an
\* employee record appears in the directory only by a step of a create.
C18_UpdateNeverCreates ==
    [][/\ \A e \in (DOMAIN employees') \ (DOMAIN employees) :
             \E r \in BagToSet(reqs) : Moves(r) /\ IsCreate(r) /\ r.employeeId = e
       /\ \A r \in BagToSet(reqs) :
             (/\ Moves(r) /\ r.op = "recordV2" /\ r.pc = "update"
              /\ r.employeeId \notin DOMAIN employees)
             => /\ r.employeeId \notin DOMAIN employees'
                /\ last'.resp.status # 200]_vars

----------------------------------------------------------------------------
(* Ledger claims, continued *)

Elements(seq) == {seq[i] : i \in 1 .. Len(seq)}

\* C19: the history of an employee for a date lists the stored fixes of
\* that employee and date in ascending order of capture time, and the
\* employee-locations view lists the stored fixes of that employee in
\* descending order of capture time.
C19_HistoryOrders ==
    [][\A r \in BagToSet(reqs) :
        /\ (r.op = "history" /\ Answers(r) /\ last'.resp.status = 200) =>
              LET result == last'.resp.body
              IN /\ Elements(result)
                      = {fix \in FixesOf(r.employeeId) : DateParam(fix.date) = r.date}
                 /\ \A i, j \in 1 .. Len(result) :
                       i < j => CaptureTime(result[i]) <= CaptureTime(result[j])
        /\ (r.op = "employeeLocations" /\ Answers(r) /\ last'.resp.status = 200) =>
              LET result == last'.resp.body
              IN /\ Elements(result) = FixesOf(r.employeeId)
                 /\ \A i, j \in 1 .. Len(result) :
                       i < j => CaptureTime(result[i]) >= CaptureTime(result[j])]_vars

\* the places in a scan result of the fixes of employee e that have the
\* maximum capture timestamp among e's fixes
TopPlaces(scanned, e) ==
    {k \in 1 .. Len(scanned) :
        /\ scanned[k].employeeId = e
        /\ \A m \in 1 .. Len(scanned) :
              scanned[m].employeeId = e =>
                 CaptureTime(scanned[m]) <= CaptureTime(scanned[k])}

\* C20: whatever order the scan returns the ledger in, the entry that
\* latestPerEmployee() keeps for an employee is the last fix of the scan
\* among that employee's fixes with the maximum timestamp, and the entries
\* are in descending order of timestamp.
C20_TieKeepsLast ==
    \A scanned \in ScanOrders(Scan(locations)) :
        LET result == LatestArray(scanned)
        IN /\ \A i, j \in 1 .. Len(result) :
                 i < j => CaptureTime(result[i]) >= CaptureTime(result[j])
           /\ \A i \in 1 .. Len(result) :
                 \E k \in TopPlaces(scanned, result[i].employeeId) :
                    /\ result[i] = scanned[k]
                    /\ \A k2 \in TopPlaces(scanned, result[i].employeeId) : k2 <= k

----------------------------------------------------------------------------
(* Directory claims, continued *)

\* C21: an employee whose stored passwordSet is true keeps it: no step
\* removes the employee, or makes its passwordSet false or absent.
C21_PasswordSetMonotonic ==
    [][\A e \in DOMAIN employees :
          ("passwordSet" \in DOMAIN employees[e] /\ employees[e].passwordSet)
          => /\ e \in DOMAIN employees'
             /\ "passwordSet" \in DOMAIN employees'[e]
             /\ employees'[e].passwordSet]_vars

\* C22: a changePassword answered 200 for an employee whose stored
\* passwordSet is true when the update is applied supplied the password
\* stored at that moment as its old password (so that of two concurrent
\* calls with the same old password and another new one, the second to
\* write cannot succeed).
C22_CheckAtomicWithWrite ==
    [][\A r \in BagToSet(reqs) :
          (/\ r.op = "changePassword" /\ Answers(r) /\ last'.resp.status = 200
           /\ r.employeeId \in DOMAIN employees
           /\ "passwordSet" \in DOMAIN employees[r.employeeId]
           /\ employees[r.employeeId].passwordSet)
          => /\ "password" \in DOMAIN employees[r.employeeId]
             /\ r.oldPassword = employees[r.employeeId].password]_vars

----------------------------------------------------------------------------
(* Ledger claims, continued *)

\* C23: a record that is answered with an error has not added its fix: it
\* is still before its put and the step adds nothing; a record that is
\* answered 200 has put its fix exactly once.
C23_RecordAllOrNothing ==
    [][\A r \in BagToSet(reqs) :
          (r.op \in {"recordV1", "recordV2"} /\ Answers(r)) =>
              IF last'.resp.status = 200
              THEN \/ /\ r.pc = "put"
                      /\ locations' = Put(locations, r.item.locationId, r.item)
                   \/ /\ r.pc = "update"
                      /\ locations' = locations
              ELSE /\ r.pc = "put"
                   /\ locations' = locations]_vars

----------------------------------------------------------------------------
(* Attendance claims, continued *)

\* C24: status answers isClockedIn = true only when the employee has an
\* attendance record of the current day; a record of an earlier day alone
\* never makes it answer true.
C24_StatusOnlyToday ==
    [][\A r \in BagToSet(reqs) :
          (/\ Answers(r) /\ r.op = "status" /\ last'.resp.status = 200
           /\ last'.resp.body.isClockedIn)
          => RecordsOf(r.employeeId, getISTDateString(now)) # {}]_vars

----------------------------------------------------------------------------
(* Read operations *)

ReadOps ==
    {"getEmployee", "listEmployees", "loginV1", "loginV2", "latest", "history",
     "status", "stats"}

\* this step is a step of a read operation: one takes or leaves a slot, or
\* is answered before its first await
ReadStep ==
    \/ \E r \in BagToSet(reqs) \cup BagToSet(reqs') :
          r.op \in ReadOps /\ CopiesIn(r, reqs') # CopiesIn(r, reqs)
    \/ last' # last /\ last'.req.op \in ReadOps

\* C25: no step of get, list, login, latest, history, status or stats,
\* answered with success or with an error, changes the Employees, the
\* EmployeeLocation or the Attendance table.
C25_ReadsLeaveTables ==
    [][ReadStep => UNCHANGED <<employees, locations, attendance>>]_vars

C25_Witness ==
    /\ last.req.op = "getEmployee" /\ last.resp.status = 200
    /\ employees # EmptyTable /\ locations # EmptyTable /\ attendance # EmptyTable

====
